---- MODULE Spec2Model ----
(***************************************************************************)
(* Regatta start-sequence firmware (src/src/main.rs): an RTIC application  *)
(* with a priority-2 button poller (check_buttons), a priority-1 countdown *)
(* state machine (machine) and three priority-1 actuator tasks (reset_all, *)
(* set_lights, beep_horn), all driven by one monotonic timer queue.        *)
(*                                                                         *)
(* Time is counted in poll periods (one unit = 50 ms, the period of        *)
(* check_buttons).  Every instant is kept relative to the present: 0 is    *)
(* "now", a positive number lies in the future.  Tasks take microseconds,  *)
(* so time advances only when the processor is idle.                       *)
(*                                                                         *)
(* Each task has one message slot (RTIC's default capacity of 1).  A slot  *)
(* is taken from spawn until the dispatcher hands the message to the task  *)
(* and is free again while the task runs.                                  *)
(*                                                                         *)
(* machine is a step up to its handel lock section and a step for that     *)
(* section; reset_all and set_lights are one step for each pin they write. *)
(***************************************************************************)
EXTENDS Integers, Sequences, FiniteSets, TLC

\* ------------------------------------------------------------- bounds
\* Model time units in one second.  The hardware has 20 (1000 ms / 50 ms);
\* the countdown is shortened so that a whole run fits the search.  The
\* order of all durations is kept: every beep ends before the next step.
SecTicks == 1
\* Width of the tick counter `count` (u64 in the source, wraps here).
CountMod == 3
\* Width of the timer-queue marker (u32 in RTIC, wraps here).
MarkerMod == 3

\* ---------------------------------------------------------- constants
ONE_MINUTE == 60
PollMs == 50
WarmLo == 40
WarmHi == 90
WarningBeepMs == 500
ThreeBeepMs == 1200
TwoBeepMs == 200
OneBeepMs == 200
StartBeepMs == 2000
LightsDelayMs == 50

Tasks == {"check_buttons", "machine", "reset_all", "set_lights", "beep_horn"}
States == {"Warning", "Three", "Two", "One", "Start"}
Levels == {"low", "high"}

VARIABLES
  start_button, stop_button,   \* input pins, TRUE = high
  horn, light1, light2, light3, \* output pins, "low" = asserted
  handel,                       \* Option<SpawnHandle>: {} or {marker}
  count,                        \* check_buttons local
  started,                      \* beep_horn local
  tq,                           \* timer queue: set of [task, due, marker]
  rq1, rq2,                     \* ready queues of priority 1 and 2
  inputs,                       \* message buffer of each task
  mach,                         \* the machine step in execution
  wr,                           \* the reset_all or set_lights in execution
  mk,                           \* next timer-queue marker
  panic,                        \* "none", or the task whose spawn(..).unwrap()
                                \* failed: the firmware has halted
  \* history of the present countdown, kept for the properties below
  stopped,                      \* a stop took the handle, no start since
  resets,                       \* reset_all runs since that stop
  interrupted,                  \* a stop took the handle since arming
  visited,                      \* the steps run since arming: [state, at, seed,
                                \* instant]
  sinceArm,                     \* poll periods since the arming tick
  lastLights,                   \* the state whose set_lights ran last;
                                \* "boot" until a task writes an output
  beep,                         \* the beep in progress: [by, age, cut, old]
  ticks                         \* what the last two ticks did: <<prev, last>>

vars == <<start_button, stop_button, horn, light1, light2, light3, handel,
          count, started, tq, rq1, rq2, inputs, mach, wr, mk, panic,
          stopped, resets, interrupted, visited, sinceArm, lastLights,
          beep, ticks>>

hist == <<stopped, resets, interrupted, visited, sinceArm, lastLights,
          beep, ticks>>

\* millis() and secs() of the monotonic, in model time units
Millis(ms) == ms \div PollMs
Secs(s) == s * SecTicks

\* Only the handles of machine steps are ever kept; the markers of the
\* other timer-queue entries are not tracked.
NoMarker == MarkerMod

NoInputs ==
  [check_buttons |-> [instant |-> 0],
   machine |-> [instant |-> 0, state |-> "Warning", seed |-> 0],
   reset_all |-> [unit |-> 0],
   set_lights |-> [l1 |-> FALSE, l2 |-> FALSE, l3 |-> FALSE, by |-> "none"],
   beep_horn |-> [millis |-> 0, by |-> "none"]]

MachIdle == [pc |-> "idle", instant |-> 0, state |-> "Warning", seed |-> 0]

\* No reset_all or set_lights is between two of its writes.
WrIdle == [task |-> "none", step |-> 0, a |-> NoInputs["set_lights"]]

\* No beep is in progress.
NoBeep == [by |-> "none", age |-> 0, cut |-> FALSE, old |-> FALSE]

InSeq(s, x) == \E i \in 1..Len(s) : s[i] = x

\* ----------------------------------------------------- RTIC primitives
\* A queue state q is a record [tq, rq1, inputs, panic].
Free(q, t) ==
  /\ \A e \in q.tq : e.task # t
  /\ ~InSeq(q.rq1, t)

\* task::spawn(args).ok(): to the ready queue, or nothing when the slot
\* is taken
SpawnOk(q, t, args) ==
  IF Free(q, t)
    THEN [q EXCEPT !.rq1 = Append(@, t), !.inputs[t] = args]
    ELSE q

\* task::spawn(args).unwrap()
SpawnUnwrap(q, t, args) ==
  IF q.panic # "none" THEN q
  ELSE IF Free(q, t)
    THEN [q EXCEPT !.rq1 = Append(@, t), !.inputs[t] = args]
    ELSE [q EXCEPT !.panic = t]

\* task::spawn_at(due, args).unwrap(), task::spawn_after(..).unwrap()
SpawnAtUnwrap(q, t, due, args, marker) ==
  IF q.panic # "none" THEN q
  ELSE IF Free(q, t)
    THEN [q EXCEPT !.tq = @ \cup {[task |-> t, due |-> due, marker |-> marker]},
                   !.inputs[t] = args]
    ELSE [q EXCEPT !.panic = t]

\* Fault: spawn_after(..).ok() scheduling nothing.
SpawnAtDropped(q, t, due, args, marker) == q

\* task::spawn_after(..).ok()
SpawnAtOk(q, t, due, args, marker) ==
  IF Free(q, t)
    THEN [q EXCEPT !.tq = @ \cup {[task |-> t, due |-> due, marker |-> marker]},
                   !.inputs[t] = args]
    ELSE q

\* SpawnHandle::cancel on the handle taken out of hs (an Option: {} or
\* {marker}): Ok when the entry is still in the timer queue
CancelOk(q, hs) == \E e \in q.tq : e.marker \in hs

\* SpawnHandle::cancel: removes the entry when it is still in the timer
\* queue (Ok), and does nothing when it has left it (Err)
Cancel(q, hs) ==
  LET hit == {e \in q.tq : e.marker \in hs}
  IN [q EXCEPT !.tq = @ \ hit,
               !.inputs = [t \in Tasks |->
                  IF \E e \in hit : e.task = t THEN NoInputs[t] ELSE @[t]]]

\* oorandom::Rand64::new(seed).rand_range(40..90).  The generator is an
\* external crate; it is stood for by a fixed function of the seed with
\* the same contract: deterministic, result in [WarmLo, WarmHi).
RandRange(seed) == WarmLo + ((seed * 37 + 11) % (WarmHi - WarmLo))

Q == [tq |-> tq, rq1 |-> rq1, inputs |-> inputs, panic |-> panic]

SetQ(q) ==
  /\ tq' = q.tq
  /\ rq1' = q.rq1
  /\ inputs' = q.inputs
  /\ panic' = q.panic

Expired == \E e \in tq : e.due <= 0

\* ------------------------------------------------------------- init
Init ==
  /\ start_button \in BOOLEAN
  /\ stop_button \in BOOLEAN
  /\ horn = "low" /\ light1 = "low" /\ light2 = "low" /\ light3 = "low"
  /\ handel = {}
  /\ count = 0
  /\ started = FALSE
  /\ tq = {}
  /\ rq1 = <<"reset_all">>
  /\ rq2 = <<"check_buttons">>
  /\ inputs = NoInputs
  /\ mach = MachIdle
  /\ wr = WrIdle
  /\ mk = 0
  /\ panic = "none"
  /\ stopped = FALSE
  /\ resets = 0
  /\ interrupted = FALSE
  /\ visited = <<>>
  /\ sinceArm = 0
  /\ lastLights = "boot"
  /\ beep = NoBeep
  /\ ticks = <<"none", "none">>

\* ----------------------------------------------- timer queue handler
\* SysTick: move one expired entry to the ready queue of its priority.
SysTick ==
  /\ panic = "none"
  /\ \E e \in tq :
       /\ e.due <= 0
       /\ tq' = tq \ {e}
       /\ IF e.task = "check_buttons"
            THEN rq2' = Append(rq2, e.task) /\ rq1' = rq1
            ELSE rq1' = Append(rq1, e.task) /\ rq2' = rq2
  /\ UNCHANGED <<start_button, stop_button, horn, light1, light2, light3,
                 handel, count, started, inputs, mach, wr, mk, panic,
                 hist>>

\* ------------------------------------------------------ check_buttons
\* Fault: the two samples taken in the other order, start overwriting stop.
ActionStartFirst ==
  IF start_button THEN "Start" ELSE IF stop_button THEN "Stop" ELSE "None"

\* The sampled action: start first, then stop overwrites it.
Action ==
  IF stop_button THEN "Stop" ELSE IF start_button THEN "Start" ELSE "None"

\* Fault: the handel.is_none() test left out.
ArmAlways == Action = "Start"

\* Action::Start: arm only when no countdown holds the handle
ArmAccepted == Action = "Start" /\ handel = {}

\* Fault: the stop branch taken whether or not handel holds a handle.
StopAlways == Action = "Stop"

\* Action::Stop: act only when a handle can be taken
StopAccepted == Action = "Stop" /\ handel # {}

\* Fault: the countdown armed with the tick counter as it was before this
\* tick counted itself.
ArmStaleSeed(q, instant, seed) ==
  SpawnAtUnwrap(q, "machine", 0,
                [instant |-> instant, state |-> "Warning", seed |-> count], mk)

\* machine::spawn_at(monotonics::now(), instant, State::Warning, seed)
\* .unwrap()
Arm(q, instant, seed) ==
  SpawnAtUnwrap(q, "machine", 0,
                [instant |-> instant, state |-> "Warning", seed |-> seed], mk)

\* Fault: the handle taken and dropped without h.cancel().
StopEffectsNoCancel(q, hs) ==
  SpawnOk(q, "reset_all", NoInputs["reset_all"])

\* reset_all::spawn().ok(); h.cancel()
StopEffects(q, hs) ==
  Cancel(SpawnOk(q, "reset_all", NoInputs["reset_all"]), hs)

check_buttons ==
  /\ panic = "none" /\ ~Expired
  /\ rq2 # <<>>
  /\ LET instant == inputs["check_buttons"].instant + Millis(PollMs)
         seed == (count + 1) % CountMod
         q0 == [Q EXCEPT !.inputs["check_buttons"] = NoInputs["check_buttons"]]
         q1 == IF ArmAccepted THEN Arm(q0, instant, seed)
               ELSE IF StopAccepted
                 THEN StopEffects(q0, handel)
               ELSE q0
         armed == ArmAccepted /\ q1.panic = "none"
         q2 == SpawnAtUnwrap(q1, "check_buttons", instant,
                             [instant |-> instant], NoMarker)
     IN /\ rq2' = Tail(rq2)
        /\ count' = seed
        /\ handel' = IF armed THEN {mk}
                     ELSE IF StopAccepted THEN {}
                     ELSE handel
        /\ mk' = IF armed THEN (mk + 1) % MarkerMod ELSE mk
        /\ SetQ(q2)
        /\ stopped' = IF armed THEN FALSE
                      ELSE IF StopAccepted THEN TRUE ELSE stopped
        /\ resets' = IF armed \/ StopAccepted THEN 0 ELSE resets
        /\ interrupted' = IF armed THEN FALSE
                          ELSE IF StopAccepted THEN TRUE ELSE interrupted
        /\ visited' = IF armed THEN <<>> ELSE visited
        /\ sinceArm' = IF armed THEN 0 ELSE sinceArm
        /\ ticks' = <<ticks[2],
                      IF ArmAccepted
                        THEN (IF armed THEN "arm" ELSE "arm_panic")
                      ELSE IF StopAccepted
                        THEN (IF CancelOk(q0, handel) THEN "stop_ok"
                              ELSE "stop_err")
                      ELSE "none">>
        /\ beep' = IF armed /\ beep.by # "none"
                     THEN [beep EXCEPT !.old = TRUE] ELSE beep
  /\ UNCHANGED <<start_button, stop_button, horn, light1, light2, light3,
                 started, mach, wr, lastLights>>

\* ------------------------------------------------------------ machine
\* Fault: a task started while reset_all or set_lights is between two of
\* its writes, as a dispatcher of a higher priority would.
Prio1RunsPreempting(t) ==
  /\ panic = "none" /\ ~Expired
  /\ rq2 = <<>>
  /\ mach.pc = "idle"
  /\ rq1 # <<>> /\ Head(rq1) = t

\* The priority-1 dispatcher hands the head of its ready queue to task t:
\* nothing of priority 2 is ready and no task of priority 1 is executing.
Prio1Runs(t) ==
  /\ panic = "none" /\ ~Expired
  /\ rq2 = <<>>
  /\ mach.pc = "idle" /\ wr.task = "none"
  /\ rq1 # <<>> /\ Head(rq1) = t

\* The queue state after the dispatcher took the head message.
Taken(t) == [Q EXCEPT !.rq1 = Tail(@), !.inputs[t] = NoInputs[t]]

\* Fault: the patterns of Two and One exchanged.
LightPatternSwapped(state) ==
  CASE state = "Three" -> <<TRUE, TRUE, TRUE>>
    [] state = "Two" -> <<FALSE, FALSE, TRUE>>
    [] state = "One" -> <<FALSE, TRUE, TRUE>>
    [] state = "Start" -> <<FALSE, FALSE, FALSE>>

\* The arguments of set_lights that each state passes.
LightPattern(state) ==
  CASE state = "Three" -> <<TRUE, TRUE, TRUE>>
    [] state = "Two" -> <<FALSE, TRUE, TRUE>>
    [] state = "One" -> <<FALSE, FALSE, TRUE>>
    [] state = "Start" -> <<FALSE, FALSE, FALSE>>

Lights(state) ==
  LET p == LightPattern(state)
  IN [l1 |-> p[1], l2 |-> p[2], l3 |-> p[3], by |-> state]

\* Fault: every state asking for a beep of one second.
BeepMsOneSecond(state) == 2 * WarningBeepMs

\* The argument of beep_horn that each state passes, in milliseconds.
BeepMs(state) ==
  CASE state = "Warning" -> WarningBeepMs
    [] state = "Three" -> ThreeBeepMs
    [] state = "Two" -> TwoBeepMs
    [] state = "One" -> OneBeepMs
    [] state = "Start" -> StartBeepMs

Beep(state) == [millis |-> BeepMs(state), by |-> state]

\* The horn and light actions a state triggers, in source order.
StateActions(q, state) ==
  CASE state = "Warning" ->
         SpawnUnwrap(q, "beep_horn", Beep(state))
    [] state = "Three" ->
         SpawnAtUnwrap(
           SpawnUnwrap(q, "beep_horn", Beep(state)),
           "set_lights", Millis(LightsDelayMs), Lights(state), NoMarker)
    [] state = "Two" ->
         SpawnUnwrap(
           SpawnUnwrap(q, "set_lights", Lights(state)),
           "beep_horn", Beep(state))
    [] state = "One" ->
         SpawnUnwrap(
           SpawnUnwrap(q, "set_lights", Lights(state)),
           "beep_horn", Beep(state))
    [] state = "Start" ->
         SpawnUnwrap(
           SpawnUnwrap(q, "beep_horn", Beep(state)),
           "set_lights", Lights(state))

\* The state a step re-arms and the delay to it, in seconds.
NextState(state) ==
  CASE state = "Warning" -> "Three"
    [] state = "Three" -> "Two"
    [] state = "Two" -> "One"
    [] state = "One" -> "Start"

DelaySecs(state, seed) ==
  IF state = "Warning" THEN RandRange(seed) ELSE ONE_MINUTE

\* machine, from its entry to its handel lock section
machine ==
  /\ Prio1Runs("machine")
  /\ LET m == inputs["machine"]
         q == StateActions(Taken("machine"), m.state)
     IN /\ SetQ(q)
        /\ mach' = IF q.panic # "none" THEN mach
                   ELSE [pc |-> "lock", instant |-> m.instant,
                         state |-> m.state, seed |-> m.seed]
        /\ visited' = Append(visited, [state |-> m.state, at |-> sinceArm,
                                       seed |-> m.seed,
                                       instant |-> m.instant])
  /\ UNCHANGED <<start_button, stop_button, horn, light1, light2, light3,
                 handel, count, started, rq2, wr, mk, stopped, resets,
                 interrupted, sinceArm, lastLights, beep, ticks>>

\* Fault: the next instant taken from the time the step runs
\* (monotonics::now()) instead of the instant the step carries.
ReSpawnFromNow(q, m) ==
  LET at == Secs(DelaySecs(m.state, m.seed))
  IN SpawnAtUnwrap(q, "machine", at,
                   [instant |-> at, state |-> NextState(m.state),
                    seed |-> m.seed], mk)

\* re_spawn: machine::spawn_at(instant + secs, instant + secs, state, seed)
\* .unwrap()
ReSpawn(q, m) ==
  LET at == m.instant + Secs(DelaySecs(m.state, m.seed))
  IN SpawnAtUnwrap(q, "machine", at,
                   [instant |-> at, state |-> NextState(m.state),
                    seed |-> m.seed], mk)

\* Fault: the handle returned by spawn_at dropped, the old one kept.
StoreHandleStale(old, marker) == old

\* Fault: the handle returned by spawn_at dropped, none stored.
StoreHandleNone(old, marker) == {}

\* *handel = Some(..) in re_spawn: the handle of the step just spawned
StoreHandle(old, marker) == {marker}

\* machine's handel lock section: re_spawn, or clear the handle in Start
machine_lock ==
  /\ panic = "none" /\ ~Expired
  /\ rq2 = <<>>
  /\ mach.pc = "lock"
  /\ IF mach.state = "Start"
       THEN /\ handel' = {}
            /\ UNCHANGED <<tq, rq1, inputs, panic, mk>>
       ELSE LET q == ReSpawn(Q, mach)
            IN /\ SetQ(q)
               /\ handel' = IF q.panic # "none" THEN handel
                            ELSE StoreHandle(handel, mk)
               /\ mk' = IF q.panic # "none" THEN mk ELSE (mk + 1) % MarkerMod
  /\ mach' = IF panic' # "none" THEN mach ELSE MachIdle
  /\ UNCHANGED <<start_button, stop_button, horn, light1, light2, light3,
                 count, started, rq2, wr, hist>>

\* ---------------------------------------------------------- actuators
\* Fault: reset_all without its horn.set_high().
ResetLevelsKeepHorn(a) == <<a[1], "high", "high", "high">>

\* The levels reset_all leaves on <<horn, light1, light2, light3>>.
ResetLevels(a) == <<"high", "high", "high", "high">>

\* A task of priority 1 goes on after a write: nothing of priority 2 is
\* ready.
Prio1Resumes(t) ==
  /\ panic = "none" /\ ~Expired
  /\ rq2 = <<>>
  /\ wr.task = t

\* pin.set_low() / pin.set_high(): one write, to the k-th of
\* <<horn, light1, light2, light3>>
Write(k, level) ==
  /\ horn' = IF k = 1 THEN level ELSE horn
  /\ light1' = IF k = 2 THEN level ELSE light1
  /\ light2' = IF k = 3 THEN level ELSE light2
  /\ light3' = IF k = 4 THEN level ELSE light3

\* reset_all, from its entry to its first write, horn.set_high()
reset_all ==
  /\ Prio1Runs("reset_all")
  /\ SetQ(Taken("reset_all"))
  /\ Write(1, ResetLevels(<<horn, light1, light2, light3>>)[1])
  /\ wr' = [WrIdle EXCEPT !.task = "reset_all", !.step = 1]
  /\ lastLights' = "none"
  /\ beep' = IF beep.by # "none" THEN [beep EXCEPT !.cut = TRUE] ELSE beep
  /\ UNCHANGED <<start_button, stop_button, handel, count, started, rq2,
                 mach, mk, stopped, resets, interrupted, visited, sinceArm,
                 ticks>>

\* reset_all: light1.set_high(), light2.set_high(), light3.set_high(), one
\* write a step
reset_all_write ==
  /\ Prio1Resumes("reset_all")
  /\ LET k == wr.step + 1
     IN /\ Write(k, ResetLevels(<<horn, light1, light2, light3>>)[k])
        /\ wr' = IF k = 4 THEN WrIdle ELSE [wr EXCEPT !.step = k]
        /\ resets' = IF k = 4 /\ stopped THEN resets + 1 ELSE resets
  /\ UNCHANGED <<start_button, stop_button, handel, count, started, tq, rq1,
                 rq2, inputs, mach, mk, panic, stopped, interrupted, visited,
                 sinceArm, lastLights, beep, ticks>>

\* set_low() for true, set_high() for false
Level(on) == IF on THEN "low" ELSE "high"

\* set_lights, from its entry to its first write, to light1
set_lights ==
  /\ Prio1Runs("set_lights")
  /\ LET a == inputs["set_lights"]
     IN /\ Write(2, Level(a.l1))
        /\ wr' = [task |-> "set_lights", step |-> 1, a |-> a]
  /\ lastLights' = "none"
  /\ SetQ(Taken("set_lights"))
  /\ UNCHANGED <<start_button, stop_button, handel, count, started, rq2,
                 mach, mk, stopped, resets, interrupted, visited, sinceArm,
                 beep, ticks>>

\* set_lights: delay(1000) and the write to light2, then to light3
set_lights_write ==
  /\ Prio1Resumes("set_lights")
  /\ LET k == wr.step + 1
     IN /\ Write(k + 1, Level(IF k = 2 THEN wr.a.l2 ELSE wr.a.l3))
        /\ wr' = IF k = 3 THEN WrIdle ELSE [wr EXCEPT !.step = k]
        /\ lastLights' = IF k = 3 THEN wr.a.by ELSE lastLights
  /\ UNCHANGED <<start_button, stop_button, handel, count, started, tq, rq1,
                 rq2, inputs, mach, mk, panic, stopped, resets, interrupted,
                 visited, sinceArm, beep, ticks>>

beep_horn ==
  /\ Prio1Runs("beep_horn")
  /\ LET a == inputs["beep_horn"]
     IN IF ~started
          THEN /\ started' = TRUE
               /\ horn' = "low"
               /\ SetQ(SpawnAtOk(Taken("beep_horn"), "beep_horn",
                                 Millis(a.millis), a, NoMarker))
               /\ beep' = [by |-> a.by, age |-> 0, cut |-> FALSE,
                           old |-> FALSE]
          ELSE /\ started' = FALSE
               /\ horn' = "high"
               /\ SetQ(Taken("beep_horn"))
               /\ beep' = NoBeep
  /\ UNCHANGED <<start_button, stop_button, light1, light2, light3, handel,
                 count, rq2, mach, wr, mk, stopped, resets, interrupted,
                 visited, sinceArm, lastLights, ticks>>

\* --------------------------------------------------------------- time
\* Nothing is ready or running: the processor sits in idle.
Idle ==
  /\ ~Expired
  /\ rq1 = <<>> /\ rq2 = <<>>
  /\ mach.pc = "idle" /\ wr.task = "none"

Busy(t) == \E e \in tq : e.task = t

\* One poll period passes in idle; the buttons may change meanwhile.
Advance ==
  /\ panic = "none"
  /\ Idle
  /\ tq' = {[e EXCEPT !.due = @ - 1] : e \in tq}
  /\ inputs' = [inputs EXCEPT
       !["check_buttons"].instant = IF Busy("check_buttons") THEN @ - 1 ELSE @,
       !["machine"].instant = IF Busy("machine") THEN @ - 1 ELSE @]
  /\ start_button' \in BOOLEAN
  /\ stop_button' \in BOOLEAN
  /\ sinceArm' = IF handel # {} THEN sinceArm + 1 ELSE 0
  /\ beep' = IF beep.by # "none" THEN [beep EXCEPT !.age = @ + 1] ELSE beep
  /\ UNCHANGED <<horn, light1, light2, light3, handel, count, started, rq1,
                 rq2, mach, wr, mk, panic, stopped, resets, interrupted,
                 visited, lastLights, ticks>>

Next ==
  \/ SysTick
  \/ check_buttons
  \/ machine
  \/ machine_lock
  \/ reset_all
  \/ reset_all_write
  \/ set_lights
  \/ set_lights_write
  \/ beep_horn
  \/ Advance

Spec == Init /\ [][Next]_vars

TypeOK ==
  /\ start_button \in BOOLEAN /\ stop_button \in BOOLEAN
  /\ {horn, light1, light2, light3} \subseteq Levels
  /\ handel \subseteq 0..(MarkerMod - 1) /\ Cardinality(handel) <= 1
  /\ count \in 0..(CountMod - 1)
  /\ started \in BOOLEAN
  /\ \A e \in tq : e.task \in Tasks /\ e.marker \in 0..MarkerMod
  /\ mach.pc \in {"idle", "lock"}
  /\ wr.task \in {"none", "reset_all", "set_lights"} /\ wr.step \in 0..3
  /\ mk \in 0..(MarkerMod - 1)
  /\ panic \in {"none"} \cup Tasks

\* ------------------------------------------------------------ helpers
AllHigh ==
  horn = "high" /\ light1 = "high" /\ light2 = "high" /\ light3 = "high"

\* The machine steps in the system: pending, ready, or executing.
MachinePending == {e \in tq : e.task = "machine"}
MachineReady == InSeq(rq1, "machine")
MachineRunning == mach.pc # "idle"

\* -------------------------------------------------------------- C1
\* C1: once a tick has taken the handle on a stop, handel stays None and
\* no machine step executes or re-arms itself until a later tick accepts
\* a start press.
C1_StopCancelsCountdown ==
  stopped => (handel = {} /\ ~MachineRunning)

\* -------------------------------------------------------------- C2
\* C2: after the reset_all spawned by an accepted stop has run, none of
\* horn, light1, light2, light3 is driven low again until a later tick
\* accepts a new start press.
C2_ResetIsFinalWord ==
  (stopped /\ resets >= 1) => AllHigh

\* -------------------------------------------------------------- C3
\* A check_buttons tick has just run: it alone empties the priority-2
\* ready queue.
TickRan == rq2 # <<>> /\ rq2' = <<>>

\* The timer-queue entries of every task but the poller.
Scheduled == {e \in tq : e.task # "check_buttons"}

Count(b) == IF b THEN 1 ELSE 0

\* C3: at most one machine step exists in the system (pending in the
\* timer queue, ready to run, or executing), and handel never refers to
\* one step while a different machine step is pending.
C3_AtMostOneCountdown ==
  /\ Cardinality(MachinePending) + Count(MachineReady)
       + Count(MachineRunning) <= 1
  /\ \A e \in MachinePending : handel # {} => handel = {e.marker}

\* A countdown that has re-armed itself twice is pending under its handle
\* while start is held down.
C3_Witness ==
  /\ Len(visited) >= 2
  /\ \E e \in MachinePending : handel = {e.marker}
  /\ start_button /\ ~stop_button
  /\ Idle

\* -------------------------------------------------------------- C4
\* C4: a tick that observes start (and not stop) while handel is Some(h)
\* leaves handel, the ready queue, the pending countdown step and every
\* other scheduled task as they are, writes no output, and only
\* increments the tick counter and re-schedules the next tick.
C4_StartWhileRunningNoOp ==
  [][(TickRan /\ Action = "Start" /\ handel # {}) =>
       /\ handel' = handel
       /\ rq1' = rq1
       /\ Scheduled' = Scheduled
       /\ inputs'["machine"] = inputs["machine"]
       /\ inputs'["set_lights"] = inputs["set_lights"]
       /\ inputs'["beep_horn"] = inputs["beep_horn"]
       /\ mk' = mk /\ panic' = panic /\ mach' = mach
       /\ <<horn, light1, light2, light3, started>>'
            = <<horn, light1, light2, light3, started>>
       /\ count' = (count + 1) % CountMod
       /\ tq' \ Scheduled' = {[task |-> "check_buttons",
                               due |-> Millis(PollMs), marker |-> NoMarker]}
  ]_vars

\* A tick has run with start held down, one poll period or more into a
\* countdown that is still pending under its handle.
C4_Witness ==
  /\ sinceArm >= 1
  /\ start_button /\ ~stop_button
  /\ \E e \in MachinePending : handel = {e.marker}
  /\ rq2 = <<>>
  /\ \E e \in tq : e.task = "check_buttons" /\ e.due = Millis(PollMs)

\* -------------------------------------------------------------- C5
Order == <<"Warning", "Three", "Two", "One", "Start">>

VisitedStates == [i \in 1..Len(visited) |-> visited[i].state]

IsPrefix(s, t) == Len(s) <= Len(t) /\ \A i \in 1..Len(s) : s[i] = t[i]

\* No machine step is pending, ready or executing.
NoMachine == MachinePending = {} /\ ~MachineReady /\ ~MachineRunning

\* C5: an uninterrupted run visits Warning, Three, Two, One, Start in
\* that order, each once: the steps run so far are a prefix of that
\* order, and once no further step is scheduled all five have run and
\* handel is None; a finished non-terminal step has stored the handle of
\* its successor.
C5_UninterruptedRunOrder ==
  (~interrupted /\ visited # <<>>) =>
     /\ IsPrefix(VisitedStates, Order)
     /\ NoMachine => (VisitedStates = Order /\ handel = {})
     /\ (~MachineRunning /\ ~MachineReady /\ VisitedStates # Order) =>
          \E e \in MachinePending :
             /\ handel = {e.marker}
             /\ inputs["machine"].state = Order[Len(visited) + 1]

\* The same statement for the runs in which no spawn failed.
C5_HoldsUnlessPanic == panic = "none" => C5_UninterruptedRunOrder

\* -------------------------------------------------------------- C6
\* C6: a failure to schedule a horn or light action is never fatal: no
\* beep_horn or set_lights spawn of machine halts the firmware.
C6_SpawnFailureNotFatal == panic \notin {"beep_horn", "set_lights"}

\* -------------------------------------------------------------- C7
\* Seconds from the Warning step to each later step of a run.
OffsetSecs(state, seed) ==
  CASE state = "Warning" -> 0
    [] state = "Three" -> RandRange(seed)
    [] state = "Two" -> RandRange(seed) + 60
    [] state = "One" -> RandRange(seed) + 120
    [] state = "Start" -> RandRange(seed) + 180

\* C7 as stated: in an uninterrupted run armed at t0 (where the Warning
\* step fires) with warm-up w, the Three, Two, One and Start steps fire
\* at exactly t0+w, t0+w+60 s, t0+w+120 s and t0+w+180 s.
C7_ClaimedInstants ==
  ~interrupted =>
     \A i \in 1..Len(visited) :
        visited[i].at = Secs(OffsetSecs(visited[i].state, visited[i].seed))

\* C7 amended: the Warning step fires at t0, at the arming tick, and
\* carries the instant of the next tick, t0 + 50 ms; every later step
\* fires exactly at the instant it carries, which is t0 + 50 ms plus the
\* step's offset.
C7_TimingOffsets ==
  ~interrupted =>
     \A i \in 1..Len(visited) :
        LET v == visited[i]
        IN IF v.state = "Warning"
             THEN v.at = 0 /\ v.instant = Millis(PollMs)
             ELSE /\ v.at = Millis(PollMs) + Secs(OffsetSecs(v.state, v.seed))
                  /\ v.instant = 0

\* An uninterrupted run has gone through all five steps.
C7_Witness == ~interrupted /\ Len(visited) = 5

\* -------------------------------------------------------------- C8
\* reset_all has just done its last write.
ResetRan == wr.task = "reset_all" /\ wr'.task = "none"

Outputs == <<horn, light1, light2, light3>>

\* C8: a stop observed while a countdown holds the handle always gets its
\* reset_all queued; reset_all runs exactly once for that stop, before the
\* processor idles again; every run of reset_all leaves horn and the three
\* lights high; and a second reset_all would leave the same levels.
C8_StopResetsActuators ==
  /\ [](/\ resets <= 1
        /\ (stopped /\ Idle) => resets = 1
        /\ ResetLevels(ResetLevels(Outputs)) = ResetLevels(Outputs))
  /\ [][/\ ResetRan => AllHigh'
        /\ (TickRan /\ StopAccepted) =>
              (~InSeq(rq1, "reset_all") /\ InSeq(rq1', "reset_all"))]_vars

\* The reset_all of a stop taken while outputs were asserted has run.
C8_Witness ==
  /\ stopped /\ resets = 1 /\ AllHigh
  /\ started
  /\ Idle

\* -------------------------------------------------------------- C9
\* C9: a tick that samples both buttons high never arms a countdown; with
\* handel Some it takes the handle, queues reset_all and cancels the
\* pending step, and with handel None it does nothing.
C9_StopPrecedence ==
  [][(TickRan /\ start_button /\ stop_button) =>
       /\ handel' = {}
       /\ MachinePending' \subseteq MachinePending
       /\ MachineReady' = MachineReady
       /\ mk' = mk
       /\ handel # {} =>
            /\ InSeq(rq1', "reset_all")
            /\ \A e \in MachinePending' : e.marker \notin handel
       /\ handel = {} => (rq1' = rq1 /\ Scheduled' = Scheduled)
  ]_vars

\* A tick with both buttons high has just stopped a pending countdown.
C9_Witness ==
  /\ start_button /\ stop_button
  /\ stopped /\ resets = 0 /\ handel = {}
  /\ InSeq(rq1, "reset_all")
  /\ NoMachine

\* A tick with both buttons high has run while no countdown was armed.
C9_WitnessIdle ==
  /\ start_button /\ stop_button
  /\ ~stopped /\ handel = {} /\ NoMachine
  /\ rq2 = <<>> /\ count > 0

\* ------------------------------------------------------------- C10
\* The levels of <<light1, light2, light3>> the claim gives each state
\* (on = low).
ClaimedLights(state) ==
  CASE state = "Three" -> <<"low", "low", "low">>
    [] state = "Two" -> <<"high", "low", "low">>
    [] state = "One" -> <<"high", "high", "low">>
    [] state = "Start" -> <<"high", "high", "high">>

LightLevels == <<light1, light2, light3>>

\* A machine step of the given state has just run up to its lock section.
StepRan(state) ==
  mach.pc = "idle" /\ mach'.pc = "lock" /\ mach'.state = state

LastVisited == visited[Len(visited)]

\* C10: once the set_lights triggered by a state has run, the lights show
\* that state's pattern until the next set_lights (or reset_all) runs; in
\* an uninterrupted run the pattern of Two, One and Start is in place
\* when the processor idles after the step, that of Three one poll period
\* later; the Warning step schedules no set_lights and changes no light.
C10_LightPattern ==
  /\ [](/\ lastLights \in {"Three", "Two", "One", "Start"} =>
             LightLevels = ClaimedLights(lastLights)
        /\ (~interrupted /\ visited # <<>> /\ Idle
              /\ LastVisited.state # "Warning"
              /\ (LastVisited.state = "Three" => sinceArm > LastVisited.at))
            => (lastLights = LastVisited.state
                /\ LightLevels = ClaimedLights(LastVisited.state)))
  /\ [][StepRan("Warning") =>
          /\ LightLevels' = LightLevels
          /\ ~InSeq(rq1', "set_lights")
          /\ \A e \in tq' : e.task = "set_lights" => e \in tq]_vars

\* The lights show the pattern of One in an uninterrupted run.
C10_Witness ==
  /\ ~interrupted /\ Len(visited) = 4 /\ Idle
  /\ lastLights = "One"

\* ------------------------------------------------------------- C11
\* The check_buttons ticks in the system: pending in the timer queue or
\* ready to run.
PendingTicks ==
  Cardinality({e \in tq : e.task = "check_buttons"})
    + Count(InSeq(rq2, "check_buttons"))

\* Every tick, whichever branch it takes, schedules exactly one next tick,
\* at its own instant + 50 ms.
TickReschedules ==
  [][TickRan =>
       /\ {e \in tq' : e.task = "check_buttons"}
            = {[task |-> "check_buttons", due |-> Millis(PollMs),
                marker |-> NoMarker]}
       /\ inputs'["check_buttons"].instant
            = inputs["check_buttons"].instant + Millis(PollMs)]_vars

\* C11: the poll loop never terminates: exactly one check_buttons tick is
\* pending at all times and the firmware never halts, so that the pending
\* tick occurs and ticks keep occurring forever.
C11_PollLoopNeverStops == PendingTicks = 1 /\ panic = "none"

\* Exactly one tick is pending at all times, and every tick that runs
\* schedules the next one 50 ms after its own instant.
C11_OneTickPending == [](PendingTicks = 1) /\ TickReschedules

\* ------------------------------------------------------------- C12
\* check_buttons is about to run: the state it observes.
TickObserves == panic = "none" /\ ~Expired /\ rq2 # <<>>

\* C12: in every state check_buttons observes, a handle in handel is that
\* of a machine step still pending in the timer queue, so no tick takes a
\* handle and has its cancel report that the step has already fired.
C12_HandleNeverStale ==
  /\ (TickObserves /\ handel # {}) =>
        \E e \in MachinePending : handel = {e.marker}
  /\ ticks[2] # "stop_err"

\* ------------------------------------------------------------- C13
\* reset_all or set_lights is between two of its writes.
UnitOpen == wr.task # "none"

\* The levels on <<light1, light2, light3>> that set_lights(l1, l2, l3)
\* asks for.
AskedLights(a) == <<Level(a.l1), Level(a.l2), Level(a.l3)>>

\* C13: while reset_all or set_lights is between two of its writes no
\* other actuator task starts, phases the horn or writes a pin: each step
\* changes at most the pin that is next in the open unit; when the unit
\* closes, the three lights are as set_lights was asked, and all four
\* outputs are high after reset_all; a check_buttons tick writes no
\* output.
C13_WritesSerialized ==
  [][/\ UnitOpen =>
          /\ wr'.task \in {wr.task, "none"}
          /\ started' = started
          /\ \A k \in 1..4 :
               Outputs'[k] # Outputs[k] =>
                  k = wr.step + (IF wr.task = "reset_all" THEN 1 ELSE 2)
     /\ (wr.task = "set_lights" /\ wr'.task = "none") =>
          LightLevels' = AskedLights(wr.a)
     /\ ResetRan => AllHigh'
     /\ TickRan => Outputs' = Outputs]_vars

\* set_lights is before its last write while a beep waits for the
\* processor.
C13_Witness ==
  /\ wr.task = "set_lights" /\ wr.step = 2
  /\ InSeq(rq1, "beep_horn")

\* ------------------------------------------------------------- C14
\* The time from the Warning step to the Three step of a run armed with
\* the given seed, in milliseconds: the warm-up drawn from the seed, after
\* the poll period by which the Warning step's instant is ahead (C7).
WarmupMs(seed) == PollMs + 1000 * RandRange(seed)

\* C14: a countdown is armed with the tick counter of the arming tick as
\* its seed; every step of the run carries that seed; the time from the
\* Warning step to the Three step is the same function of the seed in
\* every run, interrupted or not, and lies in [20, 90) seconds.
C14_WarmupFromSeed ==
  /\ [](/\ \A i \in 1..Len(visited) : visited[i].seed = visited[1].seed
        /\ Len(visited) >= 2 =>
             /\ visited[2].state = "Three"
             /\ visited[2].at - visited[1].at
                  = Millis(PollMs) + Secs(RandRange(visited[1].seed))
             /\ WarmupMs(visited[1].seed) >= 20 * 1000
             /\ WarmupMs(visited[1].seed) < 90 * 1000)
  /\ [][/\ (TickRan /\ ArmAccepted) =>
             /\ inputs'["machine"].seed = count'
             /\ inputs'["machine"].state = "Warning"
        /\ (mach.pc = "lock" /\ mach'.pc = "idle" /\ mach.state # "Start") =>
             inputs'["machine"].seed = mach.seed]_vars

\* The Three step of a run armed with a seed other than the first tick's
\* has run.
C14_Witness ==
  /\ Len(visited) >= 2
  /\ visited[2].state = "Three"
  /\ visited[2].seed = 0

\* ------------------------------------------------------------- C15
\* beep_horn has just run its on-phase, its off-phase.
BeepOn == ~started /\ started'
BeepOff == started /\ ~started'

\* The beep in progress began in the run armed last.
OwnBeep == beep.by # "none" /\ ~beep.old

\* The horn on-times the claim gives each state, in milliseconds.
ClaimedOnTimeMs(state) ==
  CASE state = "Warning" -> 800..1200
    [] state = "Three" -> 1000..1200
    [] state = "Two" -> 200..400
    [] state = "One" -> 200..400
    [] state = "Start" -> {2000}

\* The horn on-times of the source, in milliseconds.
SourceOnTimeMs(state) ==
  CASE state = "Warning" -> {500}
    [] state = "Three" -> {1200}
    [] state = "Two" -> {200}
    [] state = "One" -> {200}
    [] state = "Start" -> {2000}

\* The horn stays low while no reset_all cuts the beep, no longer than
\* OnTimeMs allows for the state; no reset_all cuts a beep of an
\* uninterrupted run.
HornHeld(OnTimeMs(_)) ==
  /\ (beep.by # "none" /\ ~beep.cut) =>
        (horn = "low" /\ \E ms \in OnTimeMs(beep.by) :
                             beep.age * PollMs <= ms)
  /\ (~interrupted /\ OwnBeep) => ~beep.cut

\* Every machine step that runs up to its lock section queues one beep;
\* the beep drives the horn low; its off-phase drives the horn high,
\* after an on-time that OnTimeMs allows for the state.
BeepSteps(OnTimeMs(_)) ==
  /\ \A s \in States : StepRan(s) =>
        /\ ~InSeq(rq1, "beep_horn") /\ InSeq(rq1', "beep_horn")
        /\ inputs'["beep_horn"].by = s
  /\ BeepOn => (horn' = "low" /\ beep'.by = inputs["beep_horn"].by
                /\ beep'.age = 0)
  /\ BeepOff => horn' = "high"
  /\ (BeepOff /\ ~beep.cut) => beep.age * PollMs \in OnTimeMs(beep.by)

ReSpawned ==
  mach.pc = "lock" /\ mach'.pc = "idle" /\ mach.state # "Start"

\* C16: in every state check_buttons observes, a machine step that is
\* pending in the timer queue is the one handel holds the handle of; the
\* lock section of machine schedules the next step and stores its handle
\* in one step, and an accepted stop takes the handle and removes its
\* pending step in one step, so that a stop at any tick before the step
\* is due leaves no step pending.
C16_SpawnAndStoreAtomic ==
  /\ [](TickObserves => \A e \in MachinePending : handel = {e.marker})
  /\ [][/\ ReSpawned =>
             /\ Cardinality(MachinePending') = 1
             /\ \A e \in MachinePending' : handel' = {e.marker}
        /\ (TickRan /\ StopAccepted) =>
             /\ handel' = {}
             /\ MachinePending # {} => (MachinePending' = {} /\ NoMachine')
     ]_vars

\* A tick is about to run with stop pressed while the step that the Two
\* step scheduled is pending under its handle.
C16_Witness ==
  /\ TickObserves /\ stop_button
  /\ Len(visited) = 3
  /\ \E e \in MachinePending : handel = {e.marker} /\ e.due > 0

\* ------------------------------------------------------------- C17
\* The off-phase of the beep in progress is scheduled for the end of the
\* on-time the beep was asked for, or has expired at that instant and
\* waits for the processor.
OffPhasePending ==
  LET due == Millis(inputs["beep_horn"].millis) - beep.age
  IN /\ inputs["beep_horn"].by = beep.by
     /\ \E e \in (tq \cup {[task |-> "beep_horn", due |-> 0,
                            marker |-> NoMarker]}) :
          /\ e.task = "beep_horn" /\ e.due = due
          /\ (e \in tq) # InSeq(rq1, "beep_horn")

\* C17: the horn is never left asserted: while a beep is in progress its
\* off-phase is pending for the instant millis after the on-phase, and
\* while the beep holds the horn low the firmware has not halted, so that
\* the off-phase runs and drives the horn high.
C17_HornNeverLeftAsserted ==
  beep.by # "none" =>
     /\ started /\ OffPhasePending
     /\ horn = "low" => panic = "none"

\* Up to a halt: the off-phase of every beep is pending for the instant
\* millis after its on-phase, also after a reset_all has cut the beep; it
\* drives the horn high; and a beep that machine requests finds no beep
\* in progress, so it begins with the on-phase.
C17_OffPhaseFollows ==
  /\ [](beep.by # "none" => (started /\ OffPhasePending))
  /\ [](beep.by = "none" => ~started)
  /\ [][/\ BeepOff => (horn' = "high"
                       /\ beep.age = Millis(inputs["beep_horn"].millis))
        /\ \A s \in States : StepRan(s) => (~started /\ beep.by = "none")
     ]_vars

\* ------------------------------------------------------------- C18
\* The beep_horn entries of the timer queue; those and the one in the
\* ready queue.
TimedBeeps == {e \in tq : e.task = "beep_horn"}
PendingBeeps == Cardinality(TimedBeeps) + Count(InSeq(rq1, "beep_horn"))

\* No task is in execution.
BetweenTasks == mach.pc = "idle" /\ wr.task = "none"

\* C18 as stated: between task executions started is true if and only if
\* exactly one beep_horn off-phase is pending in the timer queue; whenever
\* the horn is low started is true; started is false whenever no beep is
\* in progress.
C18_ClaimedPhase ==
  BetweenTasks =>
     /\ started <=> Cardinality(TimedBeeps) = 1
     /\ horn = "low" => started
     /\ beep.by = "none" => ~started

\* C18 amended: started is true if and only if a beep is in progress, and
\* then exactly one beep_horn message exists, the beep's off-phase, either
\* pending in the timer queue or expired and waiting in the ready queue;
\* while started is false the timer queue holds no beep_horn entry; from
\* the first write of the boot reset_all on, started is true whenever the
\* horn is low; a beep that machine requests finds started false.
C18_StartedTracksPhase ==
  /\ [](/\ started <=> beep.by # "none"
        /\ started => (OffPhasePending /\ PendingBeeps = 1)
        /\ ~started => TimedBeeps = {}
        /\ (horn = "low" /\ lastLights # "boot") => started)
  /\ [][/\ \A s \in States : StepRan(s) => ~started
        /\ (~started /\ InSeq(rq1, "beep_horn") /\ ~InSeq(rq1', "beep_horn"))
             => BeepOn]_vars

\* The off-phase of a beep has expired and waits in the ready queue, and
\* a reset_all has driven the horn high meanwhile.
C18_Witness ==
  /\ started /\ TimedBeeps = {} /\ InSeq(rq1, "beep_horn")
  /\ horn = "high" /\ beep.cut
  /\ BetweenTasks

\* ------------------------------------------------------------- C19
\* C19: no machine::spawn_at(..).unwrap() panics: machine's single slot
\* is free at every tick that arms a countdown, also at a tick that
\* follows a stop whose cancel reported the step as already fired, and
\* stays free while a machine step executes, up to its re_spawn.
C19_MachineSpawnSucceeds ==
  /\ [](/\ panic # "machine"
        /\ ticks[2] # "arm_panic"
        /\ MachineRunning => Free(Q, "machine"))
  /\ [][(TickRan /\ ArmAccepted) =>
          /\ Free(Q, "machine")
          /\ \E e \in MachinePending' : handel' = {e.marker}]_vars

\* A tick has armed a countdown right after the tick of a stop whose
\* cancel reported the step as already fired.
C19_Witness ==
  /\ ticks = <<"stop_err", "arm">>
  /\ panic = "none"
  /\ \E e \in MachinePending : handel = {e.marker}

\* ------------------------------------------------------------- C20
\* C20: a tick that observes stop while handel is None spawns no
\* reset_all, cancels nothing, leaves handel None and writes no output:
\* the ready queue, every scheduled task and its arguments, the outputs
\* and the beep in progress are as before, and only the tick counter and
\* the next tick change.
C20_StopWhileIdleNoOp ==
  [][(TickRan /\ Action = "Stop" /\ handel = {}) =>
       /\ handel' = {}
       /\ rq1' = rq1
       /\ Scheduled' = Scheduled
       /\ \A t \in Tasks \ {"check_buttons"} : inputs'[t] = inputs[t]
       /\ Outputs' = Outputs
       /\ <<started, beep, mk, panic, mach, wr>>'
            = <<started, beep, mk, panic, mach, wr>>
       /\ ticks'[2] = "none"
       /\ count' = (count + 1) % CountMod
       /\ tq' \ Scheduled' = {[task |-> "check_buttons",
                               due |-> Millis(PollMs), marker |-> NoMarker]}
  ]_vars

\* A tick has run with stop pressed and handel None, one poll period into
\* the Start beep, and the horn is still low with the off-phase pending.
C20_Witness ==
  /\ stop_button /\ handel = {}
  /\ rq2 = <<>> /\ ticks[2] = "none"
  /\ \E e \in tq : e.task = "check_buttons" /\ e.due = Millis(PollMs)
  /\ beep.by = "Start" /\ beep.age = 1 /\ ~beep.cut
  /\ horn = "low"
  /\ TimedBeeps # {}
====
